---- MODULE Spec2Model ----
(***************************************************************************)
(* Model of qnykAorticAppMainWindow / qnykAorticAppMainWindowPrivate       *)
(* (Applications/nykAorticApp).  The UI thread is one sequential process:  *)
(* pc is its position in the constructor, init() and setupUi(); once the   *)
(* window is constructed, the event loop delivers events, and every        *)
(* invocation of on_HelpAboutnykAorticAppAction_triggered in progress is a  *)
(* frame of handlers (exec() runs a nested event loop, so invocations can  *)
(* nest).  The inherited qSlicerMainWindow(Private) is modelled at the     *)
(* call sites of the source, by what the source relies on.                 *)
(***************************************************************************)
EXTENDS Integers, Sequences, FiniteSets, TLC

\* ---------------------------------------------------------------- bounds
\* Actions the base class's setupUi may have put in the Help menu.
MaxBaseHelpActions == 2
\* Triggers of the About action delivered in one run.
MaxTriggers == 2
\* Invocations of the About handler in progress at once (nested exec()).
MaxNested == 2

\* ------------------------------------------------------ program constants
\* customTitleBar->setMinimumHeight(25)
TitleBarMinHeight == 25
\* titleLayout->addStretch(1)
StretchFactor == 1

AboutActionName == "HelpAboutnykAorticAppAction"
\* The slots of qnykAorticAppMainWindow (h 37-38), each name split as
\* connectSlotsByName reads it: on_<object name>_<signal>.
WindowSlots == {[object |-> "HelpAboutnykAorticAppAction", signal |-> "triggered"]}
LogoLabelName == "LogoLabel"
AppNames == {"nykAortic", "Slicer"}

VARIABLES
  env,            \* what the build and the host application supply
  pc,             \* position of the UI thread outside the About handler
  parent,         \* QObject ownership: live object -> its parent ("none")
  objectName,     \* object -> its objectName, where one was set
  actionText,     \* QAction -> its text
  HelpMenu,       \* the actions of this->HelpMenu, in menu order
  windowIcon,     \* "unset", "null" or "valid"
  labelPixmap,    \* pixmap of logoLabel: "unset", "null" or "valid"
  titleBarWidget, \* this->PanelDockWidget->titleBarWidget()
  minimumHeight,  \* widget -> its minimum height, where one was set
  layoutItems,    \* items of titleLayout, left to right
  attrHighDpi,    \* QApplication attribute Qt::AA_UseHighDpiPixmaps
  connected,      \* connections triggered() -> on_HelpAbout..._triggered
  counts,         \* how often each operation was entered
  handlers,       \* About handler invocations in progress, innermost last
  dialogs         \* live qSlicerAboutDialog objects

vars == <<env, pc, parent, objectName, actionText, HelpMenu, windowIcon,
          labelPixmap, titleBarWidget, minimumHeight, layoutItems,
          attrHighDpi, connected, counts, handlers, dialogs>>

ui == <<parent, objectName, actionText, HelpMenu, windowIcon, labelPixmap,
        titleBarWidget, minimumHeight, layoutItems>>

\* ---------------------------------------------------------------- helpers

\* QPixmap(<resource path>) / QIcon(<resource path>): a missing resource
\* yields a null pixmap, never an error.
LoadPixmap(present) == IF present THEN "valid" ELSE "null"

\* "About " + app->applicationName()
AboutText(name) == <<"About ", name>>

\* A faulty addAction: QMenu::insertAction before the first action.
MenuPrependAction(menu, a) == <<a>> \o menu

\* QMenu::addAction(action): appends to the menu's list of actions.
MenuAddAction(menu, a) == Append(menu, a)

\* The root of o's ownership chain.
RECURSIVE RootOf(_, _)
RootOf(p, o) ==
  IF o \notin DOMAIN p \/ p[o] = "none" THEN o ELSE RootOf(p, p[o])

\* Objects of the main window's parent-child tree.
OwnedByWindow(p) == {o \in DOMAIN p : RootOf(p, o) = "mainWindow"}

EmptyFn == [x \in {} |-> x]

\* f with x mapped to v (x added to the domain when new).
Put(f, x, v) == [y \in DOMAIN f \cup {x} |-> IF y = x THEN v ELSE f[y]]

BaseActionIds == <<"baseHelpAction1", "baseHelpAction2", "baseHelpAction3">>
BaseHelpActions(n) == SubSeq(BaseActionIds, 1, n)

\* QMetaObject::connectSlotsByName(mainWindow): one connection per slot
\* on_<object name>_<signal> and descendant of mainWindow of that name.
SlotMatches(p, names) ==
  {m \in WindowSlots \X DOMAIN names :
      /\ m[2] \in DOMAIN p
      /\ m[2] # "mainWindow"
      /\ RootOf(p, m[2]) = "mainWindow"
      /\ names[m[2]] = m[1].object}

Bump(c, f) == [c EXCEPT ![f] = @ + 1]

\* ------------------------------------------------------------------- Init

Env ==
  [ctorKind : {"public", "protected"},
   appIsNull : BOOLEAN,
   appName : AppNames,
   qtAtLeast57 : BOOLEAN,
   iconPresent : BOOLEAN,
   logoFullPresent : BOOLEAN,
   logoPresent : BOOLEAN,
   nBaseHelp : 0..MaxBaseHelpActions,
   baseTitleBar : BOOLEAN]

Init ==
  /\ env \in Env
  /\ pc = "start"
  /\ parent = EmptyFn
  /\ objectName = EmptyFn
  /\ actionText = EmptyFn
  /\ HelpMenu = <<>>
  /\ windowIcon = "unset"
  /\ labelPixmap = "unset"
  /\ titleBarWidget = "none"
  /\ minimumHeight = EmptyFn
  /\ layoutItems = <<>>
  /\ attrHighDpi = FALSE
  /\ connected = 0
  /\ counts = [initByCtor |-> 0, initByDerived |-> 0, baseInit |-> 0,
               setupUi |-> 0, baseSetupUi |-> 0, aboutAppends |-> 0,
               triggers |-> 0, invocations |-> 0]
  /\ handlers = <<>>
  /\ dialogs = EmptyFn

\* ------------------------------------------- constructors (cxx 120-133)

\* A faulty public constructor: the body of the protected one, which leaves
\* the window constructed and never initialised.
PublicCtorNoInit ==
  /\ pc = "start"
  /\ env.ctorKind = "public"
  /\ parent' = Put(parent, "mainWindow", "none")
  /\ pc' = "constructed"
  /\ UNCHANGED <<env, objectName, actionText, HelpMenu, windowIcon,
                 labelPixmap, titleBarWidget, minimumHeight, layoutItems,
                 attrHighDpi, connected, counts, handlers, dialogs>>

\* qnykAorticAppMainWindow(QWidget*), line 121: the base-class constructor
\* runs with a new qnykAorticAppMainWindowPrivate; the body is entered next.
PublicCtor ==
  /\ pc = "start"
  /\ env.ctorKind = "public"
  /\ parent' = Put(parent, "mainWindow", "none")
  /\ pc' = "ctor_124"
  /\ UNCHANGED <<env, objectName, actionText, HelpMenu, windowIcon,
                 labelPixmap, titleBarWidget, minimumHeight, layoutItems,
                 attrHighDpi, connected, counts, handlers, dialogs>>

\* The constructor body, lines 123-124: d->init().
PublicCtorCallInit ==
  /\ pc = "ctor_124"
  /\ counts' = Bump(counts, "initByCtor")
  /\ pc' = "init_50"
  /\ UNCHANGED <<env, ui, attrHighDpi, connected, handlers, dialogs>>

\* qnykAorticAppMainWindow(pimpl, parent), lines 128-133: the base-class
\* constructor only; "init() is called by derived class".
ProtectedCtor ==
  /\ pc = "start"
  /\ env.ctorKind = "protected"
  /\ parent' = Put(parent, "mainWindow", "none")
  /\ pc' = "constructed"
  /\ UNCHANGED <<env, objectName, actionText, HelpMenu, windowIcon,
                 labelPixmap, titleBarWidget, minimumHeight, layoutItems,
                 attrHighDpi, connected, counts, handlers, dialogs>>

\* A derived class's constructor, after the protected constructor: its one
\* call of init() (line 132).
DerivedCallsInit ==
  /\ pc = "constructed"
  /\ env.ctorKind = "protected"
  /\ counts.initByCtor + counts.initByDerived = 0
  /\ counts' = Bump(counts, "initByDerived")
  /\ pc' = "init_50"
  /\ UNCHANGED <<env, ui, attrHighDpi, connected, handlers, dialogs>>

\* ------------------------------------------------------ init (cxx 47-54)

\* init() forwarding without setting the attribute first.
InitSetAttributeSkipped ==
  /\ pc = "init_50"
  /\ pc' = "init_53"
  /\ UNCHANGED <<env, ui, attrHighDpi, connected, counts, handlers, dialogs>>

\* Lines 49-51: QApplication::setAttribute(Qt::AA_UseHighDpiPixmaps), compiled
\* in for Qt >= 5.7 only.
InitSetAttribute ==
  /\ pc = "init_50"
  /\ attrHighDpi' = (IF env.qtAtLeast57 THEN TRUE ELSE attrHighDpi)
  /\ pc' = "init_53"
  /\ UNCHANGED <<env, ui, connected, counts, handlers, dialogs>>

\* Line 53: this->Superclass::init().  The base init() builds the UI through
\* the virtual setupUi(q), which dispatches to the override below.
InitCallSuper ==
  /\ pc = "init_53"
  /\ counts' = Bump(Bump(counts, "baseInit"), "setupUi")
  /\ pc' = "setup_59"
  /\ UNCHANGED <<env, ui, attrHighDpi, connected, handlers, dialogs>>

\* Line 54: the base init() has returned; init() returns to its caller and
\* the constructor returns to the event loop.
InitReturn ==
  /\ pc = "init_54"
  /\ pc' = "idle"
  /\ UNCHANGED <<env, ui, attrHighDpi, connected, counts, handlers, dialogs>>

\* --------------------------------------------------- setupUi (cxx 57-114)

WidgetItem(w) == [kind |-> "widget", widget |-> w, stretch |-> 0]
SpacerItem(f) == [kind |-> "spacer", widget |-> "none", stretch |-> f]

\* A faulty lines 64-65: the action named after the base application's.
CreateAboutActionMisnamed ==
  /\ pc = "setup_59"
  /\ parent' = Put(parent, "aboutAction", "mainWindow")
  /\ objectName' = Put(objectName, "aboutAction", "HelpAboutSlicerAppAction")
  /\ pc' = "setup_66"
  /\ UNCHANGED <<env, actionText, HelpMenu, windowIcon, labelPixmap,
                 titleBarWidget, minimumHeight, layoutItems, attrHighDpi,
                 connected, counts, handlers, dialogs>>

\* Lines 59-65: app = qSlicerApplication::application();
\* new QAction(mainWindow); setObjectName("HelpAboutnykAorticAppAction").
CreateAboutAction ==
  /\ pc = "setup_59"
  /\ parent' = Put(parent, "aboutAction", "mainWindow")
  /\ objectName' = Put(objectName, "aboutAction", AboutActionName)
  /\ pc' = "setup_66"
  /\ UNCHANGED <<env, actionText, HelpMenu, windowIcon, labelPixmap,
                 titleBarWidget, minimumHeight, layoutItems, attrHighDpi,
                 connected, counts, handlers, dialogs>>

\* Line 66: setText("About " + app->applicationName()).  app is used with no
\* null check: with no qSlicerApplication instance the member access through
\* the null pointer is undefined, and the build either faults there or goes
\* on (applicationName() reads no member of *app).
SetAboutText ==
  /\ pc = "setup_66"
  /\ \/ /\ env.appIsNull
        /\ pc' = "crashed"
        /\ UNCHANGED actionText
     \/ /\ actionText' = Put(actionText, "aboutAction", AboutText(env.appName))
        /\ pc' = "setup_72"
  /\ UNCHANGED <<env, parent, objectName, HelpMenu, windowIcon, labelPixmap,
                 titleBarWidget, minimumHeight, layoutItems, attrHighDpi,
                 connected, counts, handlers, dialogs>>

\* What the base class's setupUi leaves behind: the menu bar, the Help menu
\* with the base class's own actions, the panel dock widget and, possibly, a
\* title bar of the base class's.
BaseObjects(p) ==
  LET withMenus == Put(Put(Put(p, "menubar", "mainWindow"),
                               "HelpMenu", "menubar"),
                           "PanelDockWidget", "mainWindow")
      withActions ==
        [o \in DOMAIN withMenus \cup {BaseActionIds[i] : i \in 1..env.nBaseHelp}
           |-> IF o \in DOMAIN withMenus THEN withMenus[o] ELSE "mainWindow"]
  IN  IF env.baseTitleBar
        THEN Put(withActions, "baseTitleBar", "PanelDockWidget")
        ELSE withActions

\* Line 72: this->Superclass::setupUi(mainWindow), which ends with
\* QMetaObject::connectSlotsByName(mainWindow) (comment, lines 69-71).
CallSuperSetupUi ==
  /\ pc = "setup_72"
  /\ parent' = BaseObjects(parent)
  /\ HelpMenu' = BaseHelpActions(env.nBaseHelp)
  /\ titleBarWidget' = (IF env.baseTitleBar THEN "baseTitleBar" ELSE "none")
  /\ connected' = connected + Cardinality(SlotMatches(parent', objectName))
  /\ counts' = Bump(counts, "baseSetupUi")
  /\ pc' = "setup_75"
  /\ UNCHANGED <<env, objectName, actionText, windowIcon, labelPixmap,
                 minimumHeight, layoutItems, attrHighDpi, handlers, dialogs>>

\* Line 75: this->HelpMenu->addAction(helpAboutSlicerAppAction).
AddHelpMenuAction ==
  /\ pc = "setup_75"
  /\ HelpMenu' = MenuAddAction(HelpMenu, "aboutAction")
  /\ counts' = Bump(counts, "aboutAppends")
  /\ pc' = "setup_80"
  /\ UNCHANGED <<env, parent, objectName, actionText, windowIcon, labelPixmap,
                 titleBarWidget, minimumHeight, layoutItems, attrHighDpi,
                 connected, handlers, dialogs>>

\* Line 80: mainWindow->setWindowIcon(QIcon(":/Icons/Medium/DesktopIcon.png")).
SetWindowIcon ==
  /\ pc = "setup_80"
  /\ windowIcon' = LoadPixmap(env.iconPresent)
  /\ pc' = "setup_82"
  /\ UNCHANGED <<env, parent, objectName, actionText, HelpMenu, labelPixmap,
                 titleBarWidget, minimumHeight, layoutItems, attrHighDpi,
                 connected, counts, handlers, dialogs>>

\* A faulty lines 82-90: the logo is required, and setupUi stops on a null
\* pixmap.
CreateLogoLabelRequiringLogo ==
  /\ pc = "setup_82"
  /\ IF env.logoFullPresent
       THEN /\ parent' = Put(parent, "logoLabel", "none")
            /\ objectName' = Put(objectName, "logoLabel", LogoLabelName)
            /\ labelPixmap' = "valid"
            /\ pc' = "setup_93"
       ELSE /\ pc' = "crashed"
            /\ UNCHANGED <<parent, objectName, labelPixmap>>
  /\ UNCHANGED <<env, actionText, HelpMenu, windowIcon, titleBarWidget,
                 minimumHeight, layoutItems, attrHighDpi, connected, counts,
                 handlers, dialogs>>

\* A faulty lines 82-90: setupUi waits for the logo resource to be there.
CreateLogoLabelAsking ==
  /\ pc = "setup_82"
  /\ env.logoFullPresent
  /\ parent' = Put(parent, "logoLabel", "none")
  /\ objectName' = Put(objectName, "logoLabel", LogoLabelName)
  /\ labelPixmap' = "valid"
  /\ pc' = "setup_93"
  /\ UNCHANGED <<env, actionText, HelpMenu, windowIcon, titleBarWidget,
                 minimumHeight, layoutItems, attrHighDpi, connected, counts,
                 handlers, dialogs>>

\* Lines 82-90: new QLabel() (no parent), setObjectName("LogoLabel"),
\* setPixmap(QPixmap(":/LogoFull.png")); the pixmap may be null (line 85).
CreateLogoLabel ==
  /\ pc = "setup_82"
  /\ parent' = Put(parent, "logoLabel", "none")
  /\ objectName' = Put(objectName, "logoLabel", LogoLabelName)
  /\ labelPixmap' = LoadPixmap(env.logoFullPresent)
  /\ pc' = "setup_93"
  /\ UNCHANGED <<env, actionText, HelpMenu, windowIcon, titleBarWidget,
                 minimumHeight, layoutItems, attrHighDpi, connected, counts,
                 handlers, dialogs>>

\* Lines 93-97: new QWidget() (no parent), setMinimumHeight(25),
\* new QHBoxLayout(customTitleBar): the layout is installed on the widget.
CreateCustomTitleBar ==
  /\ pc = "setup_93"
  /\ parent' = Put(Put(parent, "customTitleBar", "none"),
                   "titleLayout", "customTitleBar")
  /\ minimumHeight' = Put(minimumHeight, "customTitleBar", TitleBarMinHeight)
  /\ layoutItems' = <<>>
  /\ pc' = "setup_100"
  /\ UNCHANGED <<env, objectName, actionText, HelpMenu, windowIcon,
                 labelPixmap, titleBarWidget, attrHighDpi, connected, counts,
                 handlers, dialogs>>

\* A faulty line 100: the label is never put in the layout.
AddLogoToLayoutSkipped ==
  /\ pc = "setup_100"
  /\ pc' = "setup_103"
  /\ UNCHANGED <<env, ui, attrHighDpi, connected, counts, handlers, dialogs>>

\* Line 100: titleLayout->addWidget(logoLabel): the item is appended and the
\* label becomes a child of the widget the layout is installed on.
AddLogoToLayout ==
  /\ pc = "setup_100"
  /\ layoutItems' = Append(layoutItems, WidgetItem("logoLabel"))
  /\ parent' = [parent EXCEPT !["logoLabel"] = parent["titleLayout"]]
  /\ pc' = "setup_103"
  /\ UNCHANGED <<env, objectName, actionText, HelpMenu, windowIcon,
                 labelPixmap, titleBarWidget, minimumHeight, attrHighDpi,
                 connected, counts, handlers, dialogs>>

\* A faulty line 103: the stretch is inserted at index 0.
AddStretchFirst ==
  /\ pc = "setup_103"
  /\ layoutItems' = <<SpacerItem(StretchFactor)>> \o layoutItems
  /\ pc' = "setup_105"
  /\ UNCHANGED <<env, parent, objectName, actionText, HelpMenu, windowIcon,
                 labelPixmap, titleBarWidget, minimumHeight, attrHighDpi,
                 connected, counts, handlers, dialogs>>

\* Line 103: titleLayout->addStretch(1).
AddStretch ==
  /\ pc = "setup_103"
  /\ layoutItems' = Append(layoutItems, SpacerItem(StretchFactor))
  /\ pc' = "setup_105"
  /\ UNCHANGED <<env, parent, objectName, actionText, HelpMenu, windowIcon,
                 labelPixmap, titleBarWidget, minimumHeight, attrHighDpi,
                 connected, counts, handlers, dialogs>>

\* Line 105: this->PanelDockWidget->setTitleBarWidget(customTitleBar): the
\* dock widget adopts the widget; a title bar set before stays its child.
SetTitleBarWidget ==
  /\ pc = "setup_105"
  /\ titleBarWidget' = "customTitleBar"
  /\ parent' = [parent EXCEPT !["customTitleBar"] = "PanelDockWidget"]
  /\ pc' = "setup_114"
  /\ UNCHANGED <<env, objectName, actionText, HelpMenu, windowIcon,
                 labelPixmap, minimumHeight, layoutItems, attrHighDpi,
                 connected, counts, handlers, dialogs>>

\* Line 114: setupUi returns into the base init(), which returns to line 54.
SetupUiReturn ==
  /\ pc = "setup_114"
  /\ pc' = "init_54"
  /\ UNCHANGED <<env, ui, attrHighDpi, connected, counts, handlers, dialogs>>

\* --------------------------------- the About handler (cxx 141-146, h 38)

Top == handlers[Len(handlers)]
SetTop(f, v) == [handlers EXCEPT ![Len(handlers)] = [@ EXCEPT ![f] = v]]
NewDialog == [parent |-> "mainWindow", logo |-> "unset",
              visible |-> FALSE, modal |-> FALSE]

\* The event loop (the application's, or the one of an exec() in progress)
\* is ready to deliver an event.
EventLoopRunning ==
  /\ pc = "idle"
  /\ handlers # <<>> => Top.pc = "exec"

\* The About action is triggered (the user picks it in the Help menu, or
\* QAction::trigger() is called): triggered() is emitted and each connected
\* slot is called in turn.  Entering the slot constructs the dialog,
\* line 143: qSlicerAboutDialog about(this).
TriggerAboutAction ==
  /\ EventLoopRunning
  /\ "aboutAction" \in DOMAIN parent
  /\ counts.triggers < MaxTriggers
  /\ Len(handlers) < MaxNested
  /\ IF connected = 0
       THEN /\ counts' = Bump(counts, "triggers")
            /\ UNCHANGED <<handlers, dialogs>>
       ELSE LET id == counts.invocations + 1 IN
            /\ counts' = Bump(Bump(counts, "triggers"), "invocations")
            /\ handlers' = Append(handlers, [pc |-> "h144", dialog |-> id,
                                             more |-> connected - 1])
            /\ dialogs' = Put(dialogs, id, NewDialog)
  /\ UNCHANGED <<env, pc, ui, attrHighDpi, connected>>

\* Line 144: about.setLogo(QPixmap(":/Logo.png")).
HandlerSetLogo ==
  /\ handlers # <<>>
  /\ Top.pc = "h144"
  /\ dialogs' = [dialogs EXCEPT ![Top.dialog].logo = LoadPixmap(env.logoPresent)]
  /\ handlers' = SetTop("pc", "h145")
  /\ UNCHANGED <<env, pc, ui, attrHighDpi, connected, counts>>

\* A faulty line 145: about.show(), which returns at once.
HandlerShow ==
  /\ handlers # <<>>
  /\ Top.pc = "h145"
  /\ dialogs' = [dialogs EXCEPT ![Top.dialog].visible = TRUE]
  /\ handlers' = SetTop("pc", "h146")
  /\ UNCHANGED <<env, pc, ui, attrHighDpi, connected, counts>>

\* Line 145: about.exec() shows the dialog modally and runs an event loop
\* until the dialog is closed.
HandlerExec ==
  /\ handlers # <<>>
  /\ Top.pc = "h145"
  /\ dialogs' = [dialogs EXCEPT ![Top.dialog].visible = TRUE,
                                ![Top.dialog].modal = TRUE]
  /\ handlers' = SetTop("pc", "exec")
  /\ UNCHANGED <<env, pc, ui, attrHighDpi, connected, counts>>

\* The user closes the dialog on top: it is hidden and its exec() returns.
UserClosesDialog ==
  /\ handlers # <<>>
  /\ Top.pc = "exec"
  /\ dialogs' = [dialogs EXCEPT ![Top.dialog].visible = FALSE]
  /\ handlers' = SetTop("pc", "h146")
  /\ UNCHANGED <<env, pc, ui, attrHighDpi, connected, counts>>

Restrict(f, S) == [x \in DOMAIN f \cap S |-> f[x]]

\* A faulty handler: the dialog is allocated with new and never deleted, so
\* it lives on, as a child of the window, after the handler has returned.
HandlerReturnLeaking ==
  /\ handlers # <<>>
  /\ Top.pc = "h146"
  /\ handlers' = SubSeq(handlers, 1, Len(handlers) - 1)
  /\ UNCHANGED <<env, pc, ui, attrHighDpi, connected, counts, dialogs>>

\* Line 146: the handler returns and the dialog, a local, is destroyed.  A
\* further slot connected to the same signal is called next.
HandlerReturn ==
  /\ handlers # <<>>
  /\ Top.pc = "h146"
  /\ LET rest == SubSeq(handlers, 1, Len(handlers) - 1)
         live == Restrict(dialogs, DOMAIN dialogs \ {Top.dialog})
         id == counts.invocations + 1
     IN  IF Top.more = 0
           THEN /\ handlers' = rest
                /\ dialogs' = live
                /\ UNCHANGED counts
           ELSE /\ handlers' = Append(rest, [pc |-> "h144", dialog |-> id,
                                             more |-> Top.more - 1])
                /\ dialogs' = Put(live, id, NewDialog)
                /\ counts' = Bump(counts, "invocations")
  /\ UNCHANGED <<env, pc, ui, attrHighDpi, connected>>

\* ~qnykAorticAppMainWindow (cxx 136-138): the host deletes the window once
\* no handler is in progress (after its event loop, or from its top level),
\* and the window takes its tree of children with it.
DestroyWindow ==
  /\ pc \in {"idle", "constructed"}
  /\ handlers = <<>>
  /\ LET keep == DOMAIN parent \ OwnedByWindow(parent) IN
     /\ parent' = Restrict(parent, keep)
     /\ objectName' = Restrict(objectName, keep)
     /\ actionText' = Restrict(actionText, keep)
     /\ minimumHeight' = Restrict(minimumHeight, keep)
     /\ HelpMenu' = SelectSeq(HelpMenu, LAMBDA a : a \in keep)
     /\ titleBarWidget' = (IF titleBarWidget \in keep THEN titleBarWidget
                           ELSE "none")
     /\ layoutItems' = (IF "titleLayout" \in keep THEN layoutItems ELSE <<>>)
  /\ pc' = "destroyed"
  /\ UNCHANGED <<env, windowIcon, labelPixmap, attrHighDpi, connected, counts,
                 handlers, dialogs>>

\* ------------------------------------------------------- specification

\* The steps the UI thread takes by itself, inside an operation in progress.
UIStep ==
  \/ PublicCtorCallInit
  \/ InitSetAttribute
  \/ InitCallSuper
  \/ CreateAboutAction
  \/ SetAboutText
  \/ CallSuperSetupUi
  \/ AddHelpMenuAction
  \/ SetWindowIcon
  \/ CreateLogoLabel
  \/ CreateCustomTitleBar
  \/ AddLogoToLayout
  \/ AddStretch
  \/ SetTitleBarWidget
  \/ SetupUiReturn
  \/ InitReturn
  \/ HandlerSetLogo
  \/ HandlerExec
  \/ HandlerReturn

\* What the host application and the user do.
Event ==
  \/ PublicCtor
  \/ ProtectedCtor
  \/ DerivedCallsInit
  \/ TriggerAboutAction
  \/ UserClosesDialog
  \/ DestroyWindow

Next == UIStep \/ Event

Spec == Init /\ [][Next]_vars

\* --------------------------------------------------------------- claims

\* setupUi has returned and the window is alive.
SetupUiReturned == pc \in {"init_54", "idle"}

\* The positions inside setupUi.
InSetupUi == pc \in {"setup_59", "setup_66", "setup_72", "setup_75",
                     "setup_80", "setup_82", "setup_93", "setup_100",
                     "setup_103", "setup_105", "setup_114"}

\* The positions from the call of the base class's init() to its return.
InBaseInit == InSetupUi \/ pc = "init_54"

\* An operation of this code (a constructor body, init, setupUi, the About
\* handler) has started and has not returned.
OperationInProgress ==
  \/ pc \in {"ctor_124", "init_50", "init_53"}
  \/ InBaseInit
  \/ handlers # <<>>

\* The innermost About handler is inside about.exec().
InExec == handlers # <<>> /\ Top.pc = "exec"

\* Positions in the Help menu of the actions named like the About action.
AboutPositions ==
  {i \in 1..Len(HelpMenu) :
      /\ HelpMenu[i] \in DOMAIN objectName
      /\ objectName[HelpMenu[i]] = "HelpAboutnykAorticAppAction"}

\* C1: once setupUi has returned, the Help menu holds exactly one action
\* named "HelpAboutnykAorticAppAction", its text is "About " followed by the
\* application name, and it is the last action of the menu, after every
\* action of the base class; it is never added before the base class's
\* setupUi has run.
C1_AboutActionAppendedAfterBaseSetup ==
  /\ counts.aboutAppends <= counts.baseSetupUi
  /\ pc = "setup_75" => counts.baseSetupUi = 1 /\ AboutPositions = {}
  /\ SetupUiReturned =>
       /\ AboutPositions = {Len(HelpMenu)}
       /\ Len(HelpMenu) = env.nBaseHelp + 1
       /\ HelpMenu[Len(HelpMenu)] = "aboutAction"
       /\ actionText["aboutAction"] = <<"About ", env.appName>>
       /\ counts.aboutAppends = 1

C1_Witness ==
  /\ pc = "idle"
  /\ env.nBaseHelp >= 1
  /\ Len(HelpMenu) >= 2
  /\ HelpMenu[Len(HelpMenu)] = "aboutAction"

\* C2: every About handler in progress owns exactly one live about dialog,
\* parented to the main window; the logo is set before the dialog is shown,
\* it is shown modally, the handler is about to return only once the dialog
\* has been closed, and the dialog is gone when the handler has returned:
\* the live dialogs are exactly those of the handlers in progress.
C2_OneModalDialogPerInvocation ==
  /\ Cardinality(DOMAIN dialogs) = Len(handlers)
  /\ DOMAIN dialogs = {handlers[i].dialog : i \in 1..Len(handlers)}
  /\ \A i \in 1..Len(handlers) :
       LET f == handlers[i]
           d == dialogs[f.dialog]
       IN  /\ d.parent = "mainWindow"
           /\ f.pc = "h144" => d.logo = "unset" /\ ~d.visible
           /\ f.pc \in {"h145", "exec", "h146"} => d.logo \in {"null", "valid"}
           /\ f.pc = "h145" => ~d.visible
           /\ f.pc = "exec" => d.visible /\ d.modal
           /\ f.pc = "h146" => ~d.visible /\ d.modal
  /\ handlers = <<>> /\ pc = "idle" =>
       counts.invocations = counts.triggers

C2_Witness ==
  /\ counts.invocations = 2
  /\ Len(handlers) = 1
  /\ Top.pc = "h146"
  /\ Cardinality(DOMAIN dialogs) = 1

\* The UI objects setupUi creates.
SetupUiObjects == {"aboutAction", "logoLabel", "titleLayout", "customTitleBar"}

\* C3: the logo label and the custom title bar start without a parent; once
\* setupUi has returned, the About action, the logo label, the title-bar
\* layout and the custom title bar are all in the main window's ownership
\* tree, and none of them is alive once the window is destroyed.
C3_SetupUiObjectsOwnedByWindow ==
  /\ pc \in {"setup_93", "setup_100"} => parent["logoLabel"] = "none"
  /\ pc \in {"setup_100", "setup_103", "setup_105"} =>
       parent["customTitleBar"] = "none"
  /\ SetupUiReturned => SetupUiObjects \subseteq OwnedByWindow(parent)
  /\ pc = "destroyed" => SetupUiObjects \cap DOMAIN parent = {}

C3_Witness ==
  /\ pc = "destroyed"
  /\ counts.aboutAppends = 1
  /\ "logoLabel" \notin DOMAIN parent

\* C4: a missing image resource is no failure.  A run that stops has stopped
\* before any image resource was loaded; no statement loading a resource
\* waits; and whatever resources are missing, setupUi leaves the same
\* structure and the handler shows its dialog, the pixmaps alone being null
\* where the resource is missing.
C4_MissingResourceIsNoFailure ==
  /\ pc = "crashed" => windowIcon = "unset" /\ labelPixmap = "unset"
  /\ pc \in {"setup_80", "setup_82"} => ENABLED UIStep
  /\ (handlers # <<>> /\ Top.pc = "h144") => ENABLED UIStep
  /\ SetupUiReturned =>
       /\ "aboutAction" \in {HelpMenu[i] : i \in 1..Len(HelpMenu)}
       /\ WidgetItem("logoLabel") \in {layoutItems[i] : i \in 1..Len(layoutItems)}
       /\ titleBarWidget = "customTitleBar"
       /\ (windowIcon = "null") = ~env.iconPresent
       /\ (windowIcon = "valid") = env.iconPresent
       /\ (labelPixmap = "null") = ~env.logoFullPresent
       /\ (labelPixmap = "valid") = env.logoFullPresent
  /\ \A i \in 1..Len(handlers) :
       handlers[i].pc \in {"exec", "h146"} =>
         /\ (dialogs[handlers[i].dialog].logo = "null") = ~env.logoPresent
         /\ dialogs[handlers[i].dialog].modal

C4_Witness ==
  /\ ~env.iconPresent /\ ~env.logoFullPresent /\ ~env.logoPresent
  /\ InExec
  /\ dialogs[Top.dialog].visible
  /\ dialogs[Top.dialog].logo = "null"
  /\ labelPixmap = "null"
  /\ windowIcon = "null"

\* C5, as stated: no operation blocks; an operation in progress always has a
\* next step of its own to take, whatever the user does or does not do.
C5_NoOperationWaits == OperationInProgress => ENABLED UIStep

\* C5, amended: the constructor body, init and setupUi never wait; the About
\* handler waits inside about.exec(), and only there, until the dialog is
\* closed.
C5_OnlyExecWaits ==
  /\ (OperationInProgress /\ ~InExec) => ENABLED UIStep
  /\ InExec => ~ENABLED UIStep /\ ENABLED UserClosesDialog

C5_Witness ==
  /\ InExec
  /\ Len(handlers) = 1
  /\ ~ENABLED UIStep

C7_ActionConnectedByName ==
  /\ pc = "setup_72" =>
       /\ "aboutAction" \in DOMAIN parent
       /\ parent["aboutAction"] = "mainWindow"
       /\ objectName["aboutAction"] = "HelpAboutnykAorticAppAction"
       /\ counts.baseSetupUi = 0
  /\ counts.baseSetupUi = 1 => connected = 1
  /\ counts.baseSetupUi = 0 => connected = 0
  /\ counts.invocations = counts.triggers

C7_Witness ==
  /\ counts.triggers = 2
  /\ counts.invocations = 2
  /\ connected = 1

\* C8: the public constructor calls init() exactly once, and only after the
\* base-class constructor has constructed the window; the protected
\* constructor never calls init(), and init() runs at most once in all.
C8_InitCalledOnceByPublicCtor ==
  /\ env.ctorKind = "public" =>
       /\ pc \in {"start", "ctor_124"} => counts.initByCtor = 0
       /\ pc \notin {"start", "ctor_124"} => counts.initByCtor = 1
       /\ counts.initByDerived = 0
  /\ pc = "ctor_124" => "mainWindow" \in DOMAIN parent
  /\ env.ctorKind = "protected" => counts.initByCtor = 0
  /\ counts.initByCtor + counts.initByDerived <= 1
  /\ counts.baseInit <= counts.initByCtor + counts.initByDerived

C8_Witness ==
  /\ env.ctorKind = "public"
  /\ pc = "idle"
  /\ counts.initByCtor = 1
  /\ counts.setupUi = 1

\* C9: once setupUi has returned, the panel dock widget's title bar is the
\* custom container, whatever title bar the base class had set; the
\* container's minimum height is 25; and its layout holds two items, the
\* logo label and then a stretch.
C9_CustomTitleBarInstalled ==
  SetupUiReturned =>
    /\ titleBarWidget = "customTitleBar"
    /\ parent["customTitleBar"] = "PanelDockWidget"
    /\ minimumHeight["customTitleBar"] = 25
    /\ Len(layoutItems) = 2
    /\ layoutItems[1].kind = "widget"
    /\ layoutItems[1].widget = "logoLabel"
    /\ layoutItems[2].kind = "spacer"

C9_Witness ==
  /\ pc = "idle"
  /\ env.baseTitleBar
  /\ "baseTitleBar" \in DOMAIN parent
  /\ titleBarWidget = "customTitleBar"

\* C10: built against Qt 5.7 or later, init() has set AA_UseHighDpiPixmaps
\* when it is about to forward to the base class's init(), and the attribute
\* stays set throughout the base init(), setupUi and its pixmap loads
\* included; init() forwards to the base init() exactly once.
C10_HighDpiSetBeforeBaseInit ==
  /\ (env.qtAtLeast57 /\ (pc = "init_53" \/ InBaseInit \/ pc = "crashed")) =>
       attrHighDpi
  /\ pc \in {"start", "ctor_124", "constructed", "init_50", "init_53"} =>
       counts.baseInit = 0
  /\ (InBaseInit \/ pc = "idle") => counts.baseInit = 1
  /\ counts.setupUi = counts.baseInit

C10_Witness ==
  /\ env.qtAtLeast57
  /\ pc = "setup_82"
  /\ attrHighDpi
  /\ counts.baseInit = 1

====
